---- MODULE Spec2Model ----
(***************************************************************************)
(* A model of the contact manager of src/main.py: validated fields, Record, *)
(* AddressBook (an insertion-ordered mapping), the upcoming-birthday        *)
(* computation, the command handlers behind handle_errors and the           *)
(* load/save boundary.                                                      *)
(*                                                                          *)
(* Python strings are sequences of one-character strings.  A display text   *)
(* is a sequence of fragments whose concatenation is the Python string: a   *)
(* fixed sentence is one fragment, a stored value contributes its           *)
(* characters.  None is NoDate for a birthday and NoRecord for a Record.    *)
(***************************************************************************)
EXTENDS Integers, Sequences, FiniteSets, TLC

VARIABLES book, last, store, pc

vars == <<book, last, store, pc>>

(***************************** bounds ***************************************)

\* most phones the Records of the book hold together in the model
MaxPhones == 2

\* number of consecutive days today ranges over in SpecBirthdays
NumTodays == 75

(***************************** strings **************************************)

Digits == {"0", "1", "2", "3", "4", "5", "6", "7", "8", "9"}

\* Characters for which str.isdigit() is true without being decimal digits
\* ("sup2" stands for U+00B2, SUPERSCRIPT TWO).
OtherDigits == {"sup2"}

DigitVal(c) ==
  CASE c = "0" -> 0 [] c = "1" -> 1 [] c = "2" -> 2 [] c = "3" -> 3
    [] c = "4" -> 4 [] c = "5" -> 5 [] c = "6" -> 6 [] c = "7" -> 7
    [] c = "8" -> 8 [] c = "9" -> 9

DigitChar(n) ==
  CASE n = 0 -> "0" [] n = 1 -> "1" [] n = 2 -> "2" [] n = 3 -> "3"
    [] n = 4 -> "4" [] n = 5 -> "5" [] n = 6 -> "6" [] n = 7 -> "7"
    [] n = 8 -> "8" [] n = 9 -> "9"

\* str.isdigit(): non-empty and every character a digit character
IsDigit(s) == Len(s) > 0 /\ \A i \in 1..Len(s) : s[i] \in Digits \cup OtherDigits

\* int(s) for a string of ASCII digits
RECURSIVE ToInt(_)
ToInt(s) ==
  IF Len(s) = 0 THEN 0
  ELSE 10 * ToInt(SubSeq(s, 1, Len(s) - 1)) + DigitVal(s[Len(s)])

\* n rendered in at least w decimal digits, zero padded (%d, %m, %Y of strftime)
RECURSIVE Pad(_, _)
Pad(n, w) ==
  IF w <= 1 /\ n < 10 THEN <<DigitChar(n)>>
  ELSE Append(Pad(n \div 10, w - 1), DigitChar(n % 10))

\* s.split(sep) for a one-character separator
RECURSIVE Split(_, _)
Split(s, sep) ==
  IF \A i \in 1..Len(s) : s[i] # sep THEN <<s>>
  ELSE LET i == CHOOSE k \in 1..Len(s) :
                  s[k] = sep /\ \A j \in 1..(k - 1) : s[j] # sep
       IN  <<SubSeq(s, 1, i - 1)>> \o Split(SubSeq(s, i + 1, Len(s)), sep)

\* sep.join(parts)
RECURSIVE Join(_, _)
Join(parts, sep) ==
  IF Len(parts) = 0 THEN <<>>
  ELSE IF Len(parts) = 1 THEN parts[1]
  ELSE parts[1] \o sep \o Join(Tail(parts), sep)

(***************************** dates ****************************************)

NoDate == [y |-> 0, m |-> 0, d |-> 0]

IsLeap(y) == y % 4 = 0 /\ (y % 100 # 0 \/ y % 400 = 0)

DaysInMonth(y, m) ==
  IF m = 2 THEN (IF IsLeap(y) THEN 29 ELSE 28)
  ELSE IF m \in {4, 6, 9, 11} THEN 30 ELSE 31

IsDate(y, m, d) ==
  y \in 1..9999 /\ m \in 1..12 /\ d \in 1..DaysInMonth(y, m)

DaysBeforeYear(y) ==
  (y - 1) * 365 + (y - 1) \div 4 - (y - 1) \div 100 + (y - 1) \div 400

RECURSIVE DaysBeforeMonth(_, _)
DaysBeforeMonth(y, m) ==
  IF m = 1 THEN 0 ELSE DaysBeforeMonth(y, m - 1) + DaysInMonth(y, m - 1)

\* date.toordinal(): 1 January of year 1 is day 1
ToOrdinal(dt) == DaysBeforeYear(dt.y) + DaysBeforeMonth(dt.y, dt.m) + dt.d

\* date.fromordinal(n)
FromOrdinal(n) ==
  LET y == CHOOSE yy \in (n \div 366)..(n \div 365 + 1) :
             yy >= 1 /\ DaysBeforeYear(yy) < n /\ n <= DaysBeforeYear(yy + 1)
      r == n - DaysBeforeYear(y)
      m == CHOOSE mm \in 1..12 :
             DaysBeforeMonth(y, mm) < r /\ r <= DaysBeforeMonth(y, mm) + DaysInMonth(y, mm)
  IN  [y |-> y, m |-> m, d |-> r - DaysBeforeMonth(y, m)]

\* date.weekday(): Monday = 0 .. Sunday = 6
Weekday(dt) == (ToOrdinal(dt) + 6) % 7

\* date + timedelta(days=n)
AddDays(dt, n) == FromOrdinal(ToOrdinal(dt) + n)

\* date.replace(year=y) is defined exactly when the day exists in year y;
\* otherwise it raises ValueError
CanReplaceYear(dt, y) == IsDate(y, dt.m, dt.d)

ReplaceYear(dt, y) == [dt EXCEPT !.y = y]

\* strftime of the three layouts the program uses
StrfDots(dt) == Pad(dt.d, 2) \o <<".">> \o Pad(dt.m, 2) \o <<".">> \o Pad(dt.y, 4)

StrfSpaces(dt) == Pad(dt.d, 2) \o <<" ">> \o Pad(dt.m, 2) \o <<" ">> \o Pad(dt.y, 4)

StrfYmd(dt) == Pad(dt.y, 4) \o <<".">> \o Pad(dt.m, 2) \o <<".">> \o Pad(dt.d, 2)

AsciiDigits(s) == \A i \in 1..Len(s) : s[i] \in Digits

\* the directives of strptime("%d.%m.%Y"): %d is 1..31 in one or two digits
\* (a leading zero or space allowed), %m is 1..12, %Y is four digits
DayField(f) ==
  \/ Len(f) = 1 /\ AsciiDigits(f) /\ ToInt(f) \in 1..9
  \/ Len(f) = 2 /\ AsciiDigits(f) /\ ToInt(f) \in 1..31
  \/ Len(f) = 2 /\ f[1] = " " /\ f[2] \in Digits /\ DigitVal(f[2]) \in 1..9

MonthField(f) == Len(f) \in 1..2 /\ AsciiDigits(f) /\ ToInt(f) \in 1..12

YearField(f) == Len(f) = 4 /\ AsciiDigits(f)

FieldInt(f) == IF f[1] = " " THEN ToInt(Tail(f)) ELSE ToInt(f)

\* datetime.strptime(value, "%d.%m.%Y") succeeds
StrptimeOk(s) ==
  LET f == Split(s, ".")
  IN  /\ Len(f) = 3
      /\ DayField(f[1]) /\ MonthField(f[2]) /\ YearField(f[3])
      /\ IsDate(ToInt(f[3]), ToInt(f[2]), FieldInt(f[1]))

Strptime(s) ==
  LET f == Split(s, ".")
  IN  [y |-> ToInt(f[3]), m |-> ToInt(f[2]), d |-> FieldInt(f[1])]

(***************************** fields ***************************************)

PhoneLen == 10

John == <<"J", "o", "h", "n">>
Ann == <<"A", "n", "n">>
EmptyStr == <<>>
P1 == <<"1", "2", "3", "4", "5", "6", "7", "8", "9", "0">>
P2 == <<"1", "1", "1", "1", "1", "1", "1", "1", "1", "1">>
ShortPhone == <<"1", "2", "3">>
AlphaPhone == <<"a", "b", "c", "d", "e", "f", "g", "h", "i", "j">>
Comma == <<",">>

\* "15.06.1990", "29.02.2000", "31.02.2000" (no such day), "1990-06-15"
D15Jun == <<"1", "5", ".", "0", "6", ".", "1", "9", "9", "0">>
D29Feb == <<"2", "9", ".", "0", "2", ".", "2", "0", "0", "0">>
D31Feb == <<"3", "1", ".", "0", "2", ".", "2", "0", "0", "0">>
DIso == <<"1", "9", "9", "0", "-", "0", "6", "-", "1", "5">>

MsgNameEmpty == <<"Name cannot be empty">>
MsgPhone == <<"Invalid phone number format. Must contain 10 digits.">>
MsgDate == <<"Invalid date format. Use DD.MM.YYYY">>
MsgNotFound == <<"This name is not entered in the phone book.">>
MsgNotFoundOrUnset == <<"This name is not entered in the phone book or birthday is not set.">>
MsgAdded == <<"Contact added.">>
MsgUpdated == <<"Contact updated.">>
MsgChanged == <<"Contact changed.">>
MsgBirthdayAdded == <<"Birthday added.">>
MsgNoUpcoming == <<"No upcoming birthdays in the next week.">>
\* str(e) of the ValueError a failed tuple unpacking raises
MsgUnpack == <<"not enough / too many values to unpack">>
\* str(e) of the ValueError date.replace raises
MsgDayRange == <<"day is out of range for month">>

\* what a call does: it returns a value or raises an exception
Returned(text) == [kind |-> "returned", exc |-> "", text |-> text]

Raised(exc, text) == [kind |-> "raised", exc |-> exc, text |-> text]

\* Name.__init__ accepts the value ("if not name" rejects the empty string)
NameOk(name) == Len(name) > 0

\* Phone.__init__ accepts the value
PhoneOk(phone) == IsDigit(phone) /\ Len(phone) = PhoneLen

\* Birthday.__init__ accepts the value
BirthdayOk(value) == StrptimeOk(value)

(***************************** Record ***************************************)

NoRecord == [name |-> <<>>, phones |-> <<>>, birthday |-> NoDate]

\* Record(name), for a name Name accepts
NewRecord(name) == [name |-> name, phones |-> <<>>, birthday |-> NoDate]

\* Record.add_phone, for a phone Phone accepts
add_phone(rec, phone) == [rec EXCEPT !.phones = Append(@, phone)]

\* Record.remove_phone
remove_phone(rec, phone) ==
  [rec EXCEPT !.phones = SelectSeq(@, LAMBDA p : p # phone)]

\* Record.edit_phone: every entry equal to old_phone gets new_phone as its
\* value, by plain assignment
edit_phone(rec, old_phone, new_phone) ==
  [rec EXCEPT !.phones =
     [i \in 1..Len(@) |-> IF @[i] = old_phone THEN new_phone ELSE @[i]]]

\* Record.add_birthday, for a value Birthday accepts
add_birthday_rec(rec, value) == [rec EXCEPT !.birthday = Strptime(value)]

\* Record.__str__
RecordStr(rec) ==
  <<"Contact name: ">> \o rec.name \o <<", phones: ">>
    \o Join(rec.phones, <<"; ">>) \o <<", Birthday: ">>
    \o (IF rec.birthday # NoDate THEN StrfSpaces(rec.birthday) ELSE <<"None">>)

(***************************** AddressBook **********************************)

\* The mapping is a sequence of entries in insertion order.
Keys(b) == {b[i].key : i \in 1..Len(b)}

IndexOf(b, name) == CHOOSE i \in 1..Len(b) : b[i].key = name

\* AddressBook.add_record that appends without looking for the key
add_record_append(b, rec) == Append(b, [key |-> rec.name, rec |-> rec])

\* AddressBook.add_record: self.data[record.name.value] = record (an existing
\* key keeps its place, a new key goes last)
add_record(b, rec) ==
  IF rec.name \in Keys(b)
  THEN [b EXCEPT ![IndexOf(b, rec.name)] = [key |-> rec.name, rec |-> rec]]
  ELSE Append(b, [key |-> rec.name, rec |-> rec])

\* AddressBook.find: self.data.get(name), None as NoRecord
find(b, name) == IF name \in Keys(b) THEN b[IndexOf(b, name)].rec ELSE NoRecord

Has(b, name) == name \in Keys(b)

\* AddressBook.delete
delete(b, name) ==
  IF name \in Keys(b) THEN SelectSeq(b, LAMBDA e : e.key # name) ELSE b

\* a mutation of the Record object stored under a key (the book holds the
\* object itself, so the change shows in the book)
Mutate(b, name, rec) == [b EXCEPT ![IndexOf(b, name)].rec = rec]
(***************************** upcoming birthdays ***************************)

\* line 97: the days ahead the list covers
Horizon == 7

\* the weekend shift with Sunday moved as far as Saturday
WeekendShiftSame(weekday) == IF weekday \in {5, 6} THEN 2 ELSE 0

\* lines 98-99: days added to days_until_birthday for an occurrence on a
\* Saturday (5) or a Sunday (6)
WeekendShift(weekday) == IF weekday \in {5, 6} THEN 7 - weekday ELSE 0

\* the window test with the upper end left out
InWindowOpen(days) == 0 <= days /\ days < Horizon

\* line 97: the occurrence is at most a week ahead
InWindow(days) == 0 <= days /\ days <= Horizon

\* lines 90-93 raise ValueError for this birthday: the day does not exist in
\* today's year, or it has passed and does not exist in the next year
ReplaceRaises(birthday, today) ==
  \/ ~CanReplaceYear(birthday, today.y)
  \/ /\ ToOrdinal(ReplaceYear(birthday, today.y)) < ToOrdinal(today)
     /\ ~CanReplaceYear(birthday, today.y + 1)

\* lines 90-93: birthday_this_year after the roll to next year
Occurrence(birthday, today) ==
  LET this_year == ReplaceYear(birthday, today.y)
  IN  IF ToOrdinal(this_year) < ToOrdinal(today)
      THEN ReplaceYear(this_year, today.y + 1)
      ELSE this_year

\* lines 95-107: what one Record with a birthday appends to the list
UpcomingEntry(rec, today) ==
  LET occ == Occurrence(rec.birthday, today)
      days_until_birthday == ToOrdinal(occ) - ToOrdinal(today)
  IN  IF InWindow(days_until_birthday)
      THEN <<[name |-> rec.name,
              congratulation_date |->
                StrfYmd(AddDays(today, days_until_birthday + WeekendShift(Weekday(occ))))]>>
      ELSE <<>>

RECURSIVE UpcomingFrom(_, _, _)
UpcomingFrom(b, today, i) ==
  IF i > Len(b) THEN <<>>
  ELSE (IF b[i].rec.birthday # NoDate THEN UpcomingEntry(b[i].rec, today) ELSE <<>>)
         \o UpcomingFrom(b, today, i + 1)

\* AddressBook.get_upcoming_birthdays with datetime.today().date() = today:
\* the list, or the ValueError of the first birthday date.replace rejects
get_upcoming_birthdays(b, today) ==
  IF \E i \in 1..Len(b) :
       b[i].rec.birthday # NoDate /\ ReplaceRaises(b[i].rec.birthday, today)
  THEN [kind |-> "raised", exc |-> "ValueError", text |-> MsgDayRange, list |-> <<>>]
  ELSE [kind |-> "returned", exc |-> "", text |-> <<>>,
        list |-> UpcomingFrom(b, today, 1)]

(***************************** command handlers *****************************)

\* handle_errors: ValueError becomes its text, KeyError the fixed sentence,
\* anything else leaves the wrapper
handle_errors(out) ==
  IF out.kind = "raised" /\ out.exc = "ValueError" THEN Returned(out.text)
  ELSE IF out.kind = "raised" /\ out.exc = "KeyError" THEN Returned(MsgNotFound)
  ELSE out

Done(b, out) == [book |-> b, out |-> out]

\* add_contact that always answers "Contact added."
add_contact_always_added(args, b) ==
  IF Len(args) < 2 THEN Done(b, Raised("ValueError", MsgUnpack))
  ELSE LET name == args[1]
           phone == args[2]
           isNew == ~Has(b, name)
       IN  IF isNew /\ ~NameOk(name) THEN Done(b, Raised("ValueError", MsgNameEmpty))
           ELSE LET b1 == IF isNew THEN add_record(b, NewRecord(name)) ELSE b
                IN  IF Len(phone) = 0 THEN Done(b1, Returned(MsgAdded))
                    ELSE IF ~PhoneOk(phone)
                         THEN Done(b1, Raised("ValueError", MsgPhone))
                    ELSE Done(Mutate(b1, name, add_phone(find(b1, name), phone)),
                              Returned(MsgAdded))

\* add_contact: "name, phone, *_ = args" needs two values; a new Record is put
\* in the book before the phone is validated
add_contact(args, b) ==
  IF Len(args) < 2 THEN Done(b, Raised("ValueError", MsgUnpack))
  ELSE LET name == args[1]
           phone == args[2]
           isNew == ~Has(b, name)
           message == IF isNew THEN MsgAdded ELSE MsgUpdated
       IN  IF isNew /\ ~NameOk(name) THEN Done(b, Raised("ValueError", MsgNameEmpty))
           ELSE LET b1 == IF isNew THEN add_record(b, NewRecord(name)) ELSE b
                IN  IF Len(phone) = 0 THEN Done(b1, Returned(message))
                    ELSE IF ~PhoneOk(phone)
                         THEN Done(b1, Raised("ValueError", MsgPhone))
                    ELSE Done(Mutate(b1, name, add_phone(find(b1, name), phone)),
                              Returned(message))

\* change_contact that appends the listed phones to the stored ones
change_contact_extend(args, b) ==
  IF Len(args) # 2 THEN Done(b, Raised("ValueError", MsgUnpack))
  ELSE LET name == args[1]
           parts == Split(args[2], ",")
       IN  IF ~Has(b, name) THEN Done(b, Returned(MsgNotFound))
           ELSE IF \E i \in 1..Len(parts) : ~PhoneOk(parts[i])
                THEN Done(b, Raised("ValueError", MsgPhone))
           ELSE Done(Mutate(b, name, [find(b, name) EXCEPT !.phones = @ \o parts]),
                     Returned(MsgChanged))

\* change_contact that creates the Record of an unknown name
change_contact_create(args, b) ==
  IF Len(args) # 2 THEN Done(b, Raised("ValueError", MsgUnpack))
  ELSE LET name == args[1]
           parts == Split(args[2], ",")
           b1 == IF Has(b, name) \/ ~NameOk(name) THEN b
                 ELSE add_record(b, NewRecord(name))
       IN  IF ~Has(b1, name) THEN Done(b, Returned(MsgNotFound))
           ELSE IF \E i \in 1..Len(parts) : ~PhoneOk(parts[i])
                THEN Done(b1, Raised("ValueError", MsgPhone))
           ELSE Done(Mutate(b1, name, [find(b1, name) EXCEPT !.phones = parts]),
                     Returned(MsgChanged))

\* change_contact: "name, phone = args" needs exactly two values; the new
\* list is built whole (every Phone validated) before it is assigned
change_contact(args, b) ==
  IF Len(args) # 2 THEN Done(b, Raised("ValueError", MsgUnpack))
  ELSE LET name == args[1]
           parts == Split(args[2], ",")
       IN  IF ~Has(b, name) THEN Done(b, Returned(MsgNotFound))
           ELSE IF \E i \in 1..Len(parts) : ~PhoneOk(parts[i])
                THEN Done(b, Raised("ValueError", MsgPhone))
           ELSE Done(Mutate(b, name, [find(b, name) EXCEPT !.phones = parts]),
                     Returned(MsgChanged))

\* show_phone: args[0] raises IndexError on an empty list
show_phone(args, b) ==
  IF Len(args) = 0 THEN Done(b, Raised("IndexError", <<"list index out of range">>))
  ELSE IF Has(b, args[1])
       THEN Done(b, Returned(Join(find(b, args[1]).phones, <<"; ">>)))
       ELSE Done(b, Returned(MsgNotFound))

\* show_all
show_all(b) ==
  Done(b, Returned(Join([i \in 1..Len(b) |-> RecordStr(b[i].rec)], <<"\n">>)))

\* add_birthday: "name, birthday = args" needs exactly two values
add_birthday(args, b) ==
  IF Len(args) # 2 THEN Done(b, Raised("ValueError", MsgUnpack))
  ELSE LET name == args[1]
           birthday == args[2]
       IN  IF ~Has(b, name) THEN Done(b, Returned(MsgNotFound))
           ELSE IF ~BirthdayOk(birthday) THEN Done(b, Raised("ValueError", MsgDate))
           ELSE Done(Mutate(b, name, add_birthday_rec(find(b, name), birthday)),
                     Returned(MsgBirthdayAdded))

\* show_birthday: args[0] raises IndexError on an empty list
show_birthday(args, b) ==
  IF Len(args) = 0 THEN Done(b, Raised("IndexError", <<"list index out of range">>))
  ELSE IF Has(b, args[1]) /\ find(b, args[1]).birthday # NoDate
       THEN Done(b, Returned(StrfDots(find(b, args[1]).birthday)))
       ELSE Done(b, Returned(MsgNotFoundOrUnset))

BirthdayLine(e) == <<"Name: ">> \o e.name \o <<", Birthday: ">> \o e.congratulation_date

\* birthdays
birthdays(b, today) ==
  LET up == get_upcoming_birthdays(b, today)
  IN  IF up.kind = "raised" THEN Done(b, Raised(up.exc, up.text))
      ELSE IF Len(up.list) > 0
           THEN Done(b, Returned(Join([i \in 1..Len(up.list) |-> BirthdayLine(up.list[i])],
                                      <<"\n">>)))
           ELSE Done(b, Returned(MsgNoUpcoming))
(***************************** persistence **********************************)

NoFile == [state |-> "missing", data |-> <<>>]

\* load_data with FileNotFoundError not caught
load_data_uncaught(st) ==
  IF st.state = "pickled" THEN [kind |-> "returned", book |-> st.data]
  ELSE [kind |-> "raised", book |-> <<>>]

\* load_data: the pickled book; an empty AddressBook when open() raises
\* FileNotFoundError; any other failure of open() or pickle.load() (a file
\* that cannot be read or is not a pickle) is not caught
load_data(st) ==
  IF st.state = "pickled" THEN [kind |-> "returned", book |-> st.data]
  ELSE IF st.state = "missing" THEN [kind |-> "returned", book |-> <<>>]
  ELSE [kind |-> "raised", book |-> <<>>]

\* save_data
save_data(b) == [state |-> "pickled", data |-> b]

(***************************** inputs ***************************************)

Names == {John, Ann}

SeqsUpTo(S, n) == UNION {[1..k -> S] : k \in 1..n}

AddArgs ==
  {<<>>, <<John>>, <<John, P1, P2>>}
    \cup {<<n, p>> : n \in Names \cup {EmptyStr},
                     p \in {P1, P2, ShortPhone, AlphaPhone, EmptyStr}}

ChangeArgs ==
  {<<>>, <<John>>, <<John, P1, P2>>}
    \cup {<<n, Join(l, Comma)>> :
            n \in Names,
            l \in SeqsUpTo({P1, P2}, MaxPhones)
                   \cup {<<ShortPhone>>, <<P1, ShortPhone>>, <<P1, EmptyStr>>}}

NameArgs == {<<>>, <<John>>, <<Ann>>, <<John, P1>>}

AddBirthdayArgs ==
  {<<>>, <<John>>, <<John, D15Jun, D15Jun>>}
    \cup {<<n, d>> : n \in Names, d \in {D15Jun, D31Feb, DIso}}
    \cup {<<John, D29Feb>>}

\* Monday 10 June 2024, and 27 February of a year without a 29 February
MainTodays == {[y |-> 2024, m |-> 6, d |-> 10], [y |-> 2023, m |-> 2, d |-> 27]}

\* Records a caller builds before add_record
BuiltRecords ==
  {NewRecord(n) : n \in Names}
    \cup {add_phone(NewRecord(n), P1) : n \in Names}
    \cup {add_birthday_rec(add_phone(NewRecord(n), P2), D15Jun) : n \in Names}

RECURSIVE PhoneCount(_)
PhoneCount(b) ==
  IF Len(b) = 0 THEN 0 ELSE Len(b[1].rec.phones) + PhoneCount(Tail(b))

Bounded(b) == PhoneCount(b) <= MaxPhones

(***************************** the program **********************************)

NoCall ==
  [cmd |-> "", args |-> <<>>, rec |-> NoRecord, today |-> NoDate,
   result |-> Returned(<<>>), list |-> <<>>]

\* one command of the loop of main(): the handler's result is printed, an
\* exception that leaves the handler ends the process without save_data
Command(cmd, args, today, r) ==
  /\ pc = "running"
  /\ \E done \in {r} : \E result \in {handle_errors(done.out)} :
       /\ Bounded(done.book)
       /\ book' = done.book
       /\ last' = [NoCall EXCEPT !.cmd = cmd, !.args = args, !.today = today,
                                 !.result = result]
       /\ pc' = IF result.kind = "raised" THEN "crashed" ELSE "running"
  /\ UNCHANGED store

Add == \E args \in AddArgs : Command("add", args, NoDate, add_contact(args, book))

Change ==
  \E args \in ChangeArgs : Command("change", args, NoDate, change_contact(args, book))

Phone == \E args \in NameArgs : Command("phone", args, NoDate, show_phone(args, book))

All == Command("all", <<>>, NoDate, show_all(book))

AddBirthday ==
  \E args \in AddBirthdayArgs :
    Command("add-birthday", args, NoDate, add_birthday(args, book))

ShowBirthday ==
  \E args \in NameArgs :
    Command("show-birthday", args, NoDate, show_birthday(args, book))

Birthdays ==
  \E today \in MainTodays : Command("birthdays", <<>>, today, birthdays(book, today))

\* a direct call of the container or of a Record in it
Call(cmd, args, rec, b, out) ==
  /\ pc = "running"
  /\ Bounded(b)
  /\ book' = b
  /\ last' = [NoCall EXCEPT !.cmd = cmd, !.args = args, !.rec = rec, !.result = out]
  /\ UNCHANGED <<store, pc>>

AddRecord ==
  \E rec \in BuiltRecords :
    Call("add_record", <<>>, rec, add_record(book, rec), Returned(<<>>))

Delete ==
  \E name \in Names : Call("delete", <<name>>, NoRecord, delete(book, name), Returned(<<>>))

Init ==
  /\ book = <<>>
  /\ last = NoCall
  /\ store = NoFile
  /\ pc = "running"

Next ==
  \/ Add
  \/ Change
  \/ Phone
  \/ All
  \/ AddBirthday
  \/ ShowBirthday
  \/ Birthdays
  \/ AddRecord
  \/ Delete

Spec == Init /\ [][Next]_vars

(***************************** direct Record calls **************************)

\* rec.add_phone(phone) on the Record stored under name
AddPhone ==
  \E name \in Keys(book), phone \in {P1, ShortPhone} :
    IF PhoneOk(phone)
    THEN Call("add_phone", <<name, phone>>, NoRecord,
              Mutate(book, name, add_phone(find(book, name), phone)), Returned(<<>>))
    ELSE Call("add_phone", <<name, phone>>, NoRecord, book, Raised("ValueError", MsgPhone))

\* rec.remove_phone(phone)
RemovePhone ==
  \E name \in Keys(book), phone \in {P1, P2} :
    Call("remove_phone", <<name, phone>>, NoRecord,
         Mutate(book, name, remove_phone(find(book, name), phone)), Returned(<<>>))

\* rec.edit_phone(old_phone, new_phone)
EditPhone ==
  \E name \in Keys(book), old_phone \in {P1, P2}, new_phone \in {P2, ShortPhone, AlphaPhone} :
    Call("edit_phone", <<name, old_phone, new_phone>>, NoRecord,
         Mutate(book, name, edit_phone(find(book, name), old_phone, new_phone)),
         Returned(<<>>))

NextRecord ==
  \/ Add
  \/ Change
  \/ AddPhone
  \/ RemovePhone
  \/ EditPhone

SpecRecord == Init /\ [][NextRecord]_vars

(***************************** upcoming birthdays, by date ******************)

FirstToday == [y |-> 2023, m |-> 12, d |-> 20]

Todays == {AddDays(FirstToday, k) : k \in 0..(NumTodays - 1)}

\* birthdays of December to March, 29 February among them
BirthdayDates ==
  {[y |-> 2000, m |-> m, d |-> d] : m \in {12, 1, 2, 3}, d \in 1..31}
    \cap {dt \in [y : {2000}, m : 1..12, d : 1..31] : IsDate(dt.y, dt.m, dt.d)}

WithBirthday(name, birthday) ==
  [key |-> name, rec |-> [NewRecord(name) EXCEPT !.birthday = birthday]]

BirthdayBooks ==
  {<<WithBirthday(John, bd)>> : bd \in BirthdayDates}
    \cup {<<WithBirthday(John, bd), WithBirthday(Ann, other)>> :
            bd \in BirthdayDates,
            other \in {NoDate, [y |-> 1990, m |-> 1, d |-> 1], [y |-> 2000, m |-> 2, d |-> 29]}}

InitBirthdays ==
  /\ book \in BirthdayBooks
  /\ last = NoCall
  /\ store = NoFile
  /\ pc = "running"

\* book.get_upcoming_birthdays() on the day today
GetUpcomingBirthdays ==
  /\ pc = "running"
  /\ last = NoCall
  /\ \E today \in Todays : \E up \in {get_upcoming_birthdays(book, today)} :
    /\ last' = [NoCall EXCEPT !.cmd = "get_upcoming_birthdays", !.today = today,
                              !.result = [kind |-> up.kind, exc |-> up.exc, text |-> up.text],
                              !.list = up.list]
    /\ UNCHANGED <<book, store, pc>>

NextBirthdays == GetUpcomingBirthdays

SpecBirthdays == InitBirthdays /\ [][NextBirthdays]_vars

(***************************** start and exit *******************************)

Unreadable == [state |-> "unreadable", data |-> <<>>]

InitLoad ==
  /\ book = <<>>
  /\ last = NoCall
  /\ store = NoFile
  /\ pc = "start"

\* main(): book = load_data(); an exception ends the process before the loop
Load ==
  /\ pc = "start"
  /\ \E r \in {load_data(store)} :
       /\ book' = r.book
       /\ pc' = IF r.kind = "raised" THEN "crashed" ELSE "running"
  /\ last' = [NoCall EXCEPT !.cmd = "load"]
  /\ UNCHANGED store

\* the add command with a valid phone
AddValid ==
  \E args \in {<<John, P1>>, <<John, P2>>, <<Ann, P1>>, <<Ann, P2>>} :
    Command("add", args, NoDate, add_contact(args, book))

\* main(): close / exit saves the book and leaves the loop
Exit ==
  /\ pc = "running"
  /\ store' = save_data(book)
  /\ pc' = "done"
  /\ last' = [NoCall EXCEPT !.cmd = "exit"]
  /\ UNCHANGED book

\* the program is started again
Restart ==
  /\ pc \in {"done", "crashed"}
  /\ pc' = "start"
  /\ book' = <<>>
  /\ last' = NoCall
  /\ UNCHANGED store

\* between runs the file is removed, or replaced by one that cannot be read
Damage ==
  /\ pc \in {"start", "done", "crashed"}
  /\ store' \in {NoFile, Unreadable}
  /\ UNCHANGED <<book, last, pc>>

NextLoad ==
  \/ Load
  \/ AddValid
  \/ Exit
  \/ Restart
  \/ Damage

SpecLoad == InitLoad /\ [][NextLoad]_vars

(***************************** properties ***********************************)

HandlerCmds ==
  {"add", "change", "phone", "all", "add-birthday", "show-birthday", "birthdays"}

AllRecords(b) == {b[i].rec : i \in 1..Len(b)}

\* C1: every phone stored in every Record is a string of exactly 10 decimal
\* digits, whatever Record operations and add / change commands ran; so
\* edit_phone with an invalid new value must not store it.
C1_StoredPhonesAreTenDigits ==
  \A rec \in AllRecords(book) : \A i \in 1..Len(rec.phones) :
    Len(rec.phones[i]) = 10 /\ \A k \in 1..Len(rec.phones[i]) : rec.phones[i][k] \in Digits

\* C2: every command handler returns a display string for every argument
\* list; no exception leaves the handler and ends the command loop.
C2_NoErrorEscapes ==
  /\ pc # "crashed"
  /\ last.cmd \in HandlerCmds => last.result.kind = "returned"

SameDay(dt, birthday) == dt.m = birthday.m /\ dt.d = birthday.d

IsFeb29(birthday) == birthday.m = 2 /\ birthday.d = 29

\* C3: when no birthday of the book is 29 February, the list has an entry for
\* a Record exactly when the Record has a birthday and one of the eight days
\* today .. today + 7 has the birthday's day and month (its next occurrence,
\* in this year or the next, is 0 to 7 days ahead).
C3_ListedIffDueWithinWeek ==
  (/\ last.cmd = "get_upcoming_birthdays"
   /\ \A rec \in AllRecords(book) : ~IsFeb29(rec.birthday))
  => /\ last.result.kind = "returned"
     /\ \A i \in 1..Len(book) :
          (\E j \in 1..Len(last.list) : last.list[j].name = book[i].key)
            <=> /\ book[i].rec.birthday # NoDate
                /\ \E k \in 0..7 : SameDay(AddDays(last.today, k), book[i].rec.birthday)

\* a birthday of January is listed on a day of December: the occurrence is
\* next year's
C3_Witness ==
  /\ last.cmd = "get_upcoming_birthdays"
  /\ last.today.m = 12
  /\ Len(book) = 1
  /\ book[1].rec.birthday.m = 1
  /\ Len(last.list) = 1

\* C4: every entry's congratulation date is a weekday: the occurrence itself
\* when that is Monday to Friday, the Monday after it when it is a Saturday
\* (2 days later) or a Sunday (1 day later).
C4_CongratulationOnWeekday ==
  last.cmd = "get_upcoming_birthdays" =>
    \A j \in 1..Len(last.list) :
      LET birthday == find(book, last.list[j].name).birthday
      IN  /\ \E k \in 0..7 : SameDay(AddDays(last.today, k), birthday)
          /\ LET k == CHOOSE n \in 0..7 : SameDay(AddDays(last.today, n), birthday)
                 occ == AddDays(last.today, k)
                 congratulation ==
                   IF Weekday(occ) = 5 THEN AddDays(occ, 2)
                   ELSE IF Weekday(occ) = 6 THEN AddDays(occ, 1)
                   ELSE occ
             IN  /\ last.list[j].congratulation_date = StrfYmd(congratulation)
                 /\ Weekday(congratulation) \in 0..4

\* a birthday on Sunday 7 January 2024 is announced for Monday 8 January
C4_Witness ==
  /\ last.cmd = "get_upcoming_birthdays"
  /\ Len(book) = 1
  /\ SameDay([y |-> 2024, m |-> 1, d |-> 7], book[1].rec.birthday)
  /\ last.list = <<[name |-> John,
                    congratulation_date |->
                      <<"2", "0", "2", "4", ".", "0", "1", ".", "0", "8">>]>>

\* C5: add with a name and a valid phone answers "Contact added." exactly
\* when the name was not in the book and "Contact updated." exactly when it
\* was, and appends the phone to the end of that Record's phones, duplicates
\* included.
C5_AddAppends ==
  [][(/\ last'.cmd = "add"
      /\ Len(last'.args) >= 2
      /\ NameOk(last'.args[1])
      /\ PhoneOk(last'.args[2]))
     => /\ last'.result = Returned(IF Has(book, last'.args[1])
                                    THEN <<"Contact updated.">>
                                    ELSE <<"Contact added.">>)
        /\ Has(book', last'.args[1])
        /\ find(book', last'.args[1]).phones
             = Append(find(book, last'.args[1]).phones, last'.args[2])]_vars

\* the same add issued twice: the second answers "Contact updated." and the
\* Record holds the phone twice
C5_Witness ==
  /\ last.cmd = "add"
  /\ last.args = <<John, P1>>
  /\ last.result = Returned(MsgUpdated)
  /\ find(book, John).phones = <<P1, P1>>

ValidLists == SeqsUpTo({P1, P2}, MaxPhones)

\* C6: change for an existing name with a comma-separated list of valid
\* phones leaves that Record with exactly the listed phones in the listed
\* order, and changes neither its birthday nor any other Record.
C6_ChangeReplaces ==
  [][\A l \in ValidLists :
       (/\ last'.cmd = "change"
        /\ last'.args \in {<<n, Join(l, Comma)>> : n \in Keys(book)})
       => /\ find(book', last'.args[1]).phones = l
          /\ find(book', last'.args[1]).birthday = find(book, last'.args[1]).birthday
          /\ find(book', last'.args[1]).name = last'.args[1]
          /\ Len(book') = Len(book)
          /\ \A i \in 1..Len(book) :
               /\ book'[i].key = book[i].key
               /\ book[i].key # last'.args[1] => book'[i] = book[i]]_vars

\* John, who has a birthday, got two phones by change while Ann is in the book
C6_Witness ==
  /\ last.cmd = "change"
  /\ last.args = <<John, Join(<<P2, P1>>, Comma)>>
  /\ find(book, John).phones = <<P2, P1>>
  /\ find(book, John).birthday # NoDate
  /\ Has(book, Ann)

\* C7: every key of the book is the name of the Record stored under it, no
\* name has two entries, and after add_record(r) find(r.name) is r itself,
\* nothing of a Record replaced being kept.
C7_KeysAreNames ==
  /\ \A i \in 1..Len(book) : book[i].key = book[i].rec.name
  /\ \A i, j \in 1..Len(book) : book[i].key = book[j].key => i = j
  /\ last.cmd = "add_record" => find(book, last.rec.name) = last.rec

\* add_record replaced John's Record (John stands before Ann, so he was in
\* the book already) by one that has no phone
C7_Witness ==
  /\ last.cmd = "add_record"
  /\ last.rec = NewRecord(John)
  /\ Len(book) = 2
  /\ book[1] = [key |-> John, rec |-> NewRecord(John)]
  /\ book[2].key = Ann

\* C8 as stated: load_data gives an empty AddressBook when there is no file
\* and when the file cannot be read, and the program starts in both cases.
C8_LoadAlwaysStarts ==
  [][(pc = "start" /\ pc' # "start" /\ store.state \in {"missing", "unreadable"})
     => (pc' = "running" /\ book' = <<>>)]_vars

\* C8: load_data gives an empty AddressBook when there is no file, and the
\* program starts; when the file is there but cannot be read, the error
\* leaves load_data and the program does not start.
C8_LoadStartsUnlessUnreadable ==
  [][(pc = "start" /\ pc' # "start")
     => /\ store.state = "missing" => (pc' = "running" /\ book' = <<>>)
        /\ store.state = "unreadable" => pc' = "crashed"
        /\ store.state = "pickled" => (pc' = "running" /\ book' = store.data)]_vars

\* the program was started on a file it cannot read
C8_Witness ==
  /\ last.cmd = "load"
  /\ store.state = "unreadable"
  /\ pc = "crashed"

\* C9: change, phone, add-birthday and show-birthday for a name that is not
\* a key answer a fixed sentence (one per command, the same for every name
\* and book) and leave the book as it was.  The argument lists are those of
\* the command surface: name and one more for change and add-birthday, a
\* name first for phone and show-birthday.
C9_UnknownNameIsNotFound ==
  [][(/\ \/ last'.cmd \in {"change", "add-birthday"} /\ Len(last'.args) = 2
         \/ last'.cmd \in {"phone", "show-birthday"} /\ Len(last'.args) >= 1
      /\ ~Has(book, last'.args[1]))
     => /\ book' = book
        /\ last'.result =
             Returned(IF last'.cmd = "show-birthday"
                      THEN <<"This name is not entered in the phone book or birthday is not set.">>
                      ELSE <<"This name is not entered in the phone book.">>)]_vars

\* change for Ann with a valid phone, in a book that holds only John
C9_Witness ==
  /\ last.cmd = "change"
  /\ last.args = <<Ann, P1>>
  /\ last.result = Returned(MsgNotFound)
  /\ Keys(book) = {John}

\* C10: when add, change or add-birthday answers a validation message for an
\* invalid phone or date, the book and every Record are as before the command.
C10_FailedCommandChangesNothing ==
  [][(/\ last'.cmd \in {"add", "change", "add-birthday"}
      /\ last'.result.text \in {MsgPhone, MsgDate})
     => book' = book]_vars
====
